---- MODULE Spec2Model ----
(***************************************************************************)
(* Plant Generator Lite: the two operators of plant_generator_lite.py,     *)
(* LSYSTEM_OT_Generate.execute (rule parsing, string expansion, turtle     *)
(* interpretation, mesh handoff) and VOGEL_OT_Generate.execute.            *)
(*                                                                         *)
(* Strings are sequences of one-character strings.  Vectors are triples of *)
(* integers in fixed point: the integer n stands for the real n / Unit.    *)
(* Turn angles are whole multiples of 90 degrees and initial headings are  *)
(* rational unit vectors, so every rotation is computed exactly.           *)
(***************************************************************************)
EXTENDS Integers, Sequences, FiniteSets, TLC

\* ------------------------------------------------------------------ bounds

\* Every command string of at most MaxLen symbols is interpreted.
MaxLen == 2
\* Iteration counts 0..MaxIter are expanded.
MaxIter == 2
\* Phyllotaxis runs place 1..MaxPoints points.
MaxPoints == 3

\* ------------------------------------------------------------ fixed point

\* The fixed-point denominator: halves (leaf corners) and fifths (3-4-5
\* headings) are whole numbers of 1/Unit.
Unit == 2 * 5

Vec(x, y, z) == <<x, y, z>>

VAdd(a, b) == <<a[1] + b[1], a[2] + b[2], a[3] + b[3]>>

\* Vector * scalar, the scalar a plain integer.
VScale(a, k) == <<a[1] * k, a[2] * k, a[3] * k>>

VDiv(a, k) == <<a[1] \div k, a[2] \div k, a[3] \div k>>

\* a . b, in units of 1 / Unit^2.
Dot(a, b) == a[1] * b[1] + a[2] * b[2] + a[3] * b[3]

\* Vector.cross, back in units of 1 / Unit.
Cross(a, b) ==
    VDiv(<<a[2] * b[3] - a[3] * b[2],
           a[3] * b[1] - a[1] * b[3],
           a[1] * b[2] - a[2] * b[1]>>, Unit)

\* The exact square root of a perfect square.
ISqrt(n) == CHOOSE r \in 0..n : r * r = n

\* Vector.normalized(): the zero vector stays the zero vector.
Normalized(v) ==
    LET len == ISqrt(Dot(v, v))
    IN  IF len = 0 THEN v ELSE VDiv(VScale(v, Unit), len)

\* math.cos and math.sin of a whole multiple of 90 degrees.
CosDeg(a) ==
    LET m == a % 360
    IN  IF m = 0 THEN 1 ELSE IF m = 180 THEN -1 ELSE 0

SinDeg(a) ==
    LET m == a % 360
    IN  IF m = 90 THEN 1 ELSE IF m = 270 THEN -1 ELSE 0

\* v.rotate(Quaternion(axis, angle)): the axis is normalised by the
\* constructor, the vector turned by the angle about it (Rodrigues).
Rotate(v, axis, deg) ==
    LET k == Normalized(axis)
        c == CosDeg(deg)
        s == SinDeg(deg)
    IN  VAdd(VAdd(VScale(v, c), VScale(Cross(k, v), s)),
             VDiv(VScale(k, Dot(k, v) * (1 - c)), Unit * Unit))

\* ---------------------------------------------------------------- strings

Whitespace == {" "}

RECURSIVE SplitAcc(_, _, _, _)
SplitAcc(s, sep, cur, acc) ==
    IF s = <<>> THEN Append(acc, cur)
    ELSE IF Head(s) = sep
         THEN SplitAcc(Tail(s), sep, <<>>, Append(acc, cur))
         ELSE SplitAcc(Tail(s), sep, Append(cur, Head(s)), acc)

\* str.split(sep)
Split(s, sep) == SplitAcc(s, sep, <<>>, <<>>)

RECURSIVE LStrip(_)
LStrip(s) ==
    IF s # <<>> /\ Head(s) \in Whitespace THEN LStrip(Tail(s)) ELSE s

RECURSIVE RStrip(_)
RStrip(s) ==
    IF s # <<>> /\ s[Len(s)] \in Whitespace
    THEN RStrip(SubSeq(s, 1, Len(s) - 1))
    ELSE s

\* str.strip()
Strip(s) == RStrip(LStrip(s))

\* sep in s
Contains(s, sep) == \E n \in 1..Len(s) : s[n] = sep

\* The index of the first sep of s.
FirstIndex(s, sep) == CHOOSE n \in 1..Len(s) : s[n] = sep /\ \A m \in 1..(n - 1) : s[m] # sep

\* [f(x) for x in seq if p(x)] with f = p = strip
RECURSIVE StripNonBlank(_)
StripNonBlank(parts) ==
    IF parts = <<>> THEN <<>>
    ELSE IF Strip(Head(parts)) # <<>>
         THEN <<Strip(Head(parts))>> \o StripNonBlank(Tail(parts))
         ELSE StripNonBlank(Tail(parts))

\* rule_pairs = [r.strip() for r in props.rules_input.split(',') if r.strip()]
RulePairs(input) == StripNonBlank(Split(input, ","))

EmptyDict == [x \in {} |-> <<>>]

\* rules_dict[key] = value
DictSet(d, key, value) ==
    [x \in DOMAIN d \cup {key} |-> IF x = key THEN value ELSE d[x]]

\* rules_dict.get(char, char): the keys are strings, a symbol is a string of
\* length one.
DictGet(d, char) == IF <<char>> \in DOMAIN d THEN d[<<char>>] ELSE <<char>>

\* A parser that skips the pairs without ':' instead of stopping.
RECURSIVE ParsePairsSkipping(_, _)
ParsePairsSkipping(pairs, d) ==
    IF pairs = <<>> THEN [ok |-> TRUE, dict |-> d]
    ELSE LET pair == Head(pairs)
         IN  IF Contains(pair, ":")
             THEN LET n == FirstIndex(pair, ":")
                  IN  ParsePairsSkipping(Tail(pairs),
                          DictSet(d, Strip(SubSeq(pair, 1, n - 1)),
                                     Strip(SubSeq(pair, n + 1, Len(pair)))))
             ELSE ParsePairsSkipping(Tail(pairs), d)

\* The loop over rule_pairs: the dictionary built so far, and whether a pair
\* without ':' stopped it.
RECURSIVE ParsePairs(_, _)
ParsePairs(pairs, d) ==
    IF pairs = <<>> THEN [ok |-> TRUE, dict |-> d]
    ELSE LET pair == Head(pairs)
         IN  IF Contains(pair, ":")
             THEN LET n == FirstIndex(pair, ":")
                      key == Strip(SubSeq(pair, 1, n - 1))
                      value == Strip(SubSeq(pair, n + 1, Len(pair)))
                  IN  ParsePairs(Tail(pairs), DictSet(d, key, value))
             ELSE [ok |-> FALSE, dict |-> d]

\* "".join(pieces)
RECURSIVE Join(_)
Join(pieces) == IF pieces = <<>> THEN <<>> ELSE Head(pieces) \o Join(Tail(pieces))

\* A rewriting that applies the rules one after the other, each to the
\* output of the one before: what apply_rules_lsystem must not do.
ReplaceAll(s, key, value) ==
    Join([n \in 1..Len(s) |-> IF <<s[n]>> = key THEN value ELSE <<s[n]>>])

RECURSIVE SequentialApply(_, _, _)
SequentialApply(s, d, keys) ==
    IF keys = {} THEN s
    ELSE LET k == CHOOSE x \in keys : TRUE
         IN  SequentialApply(ReplaceAll(s, k, d[k]), d, keys \ {k})

apply_rules_sequential(current_string, d) ==
    SequentialApply(current_string, d, DOMAIN d)

\* One pass of apply_rules_lsystem: new_string collects one piece per symbol
\* of current_string, and the pieces are joined.
apply_rules_lsystem(current_string, d) ==
    Join([n \in 1..Len(current_string) |-> DictGet(d, current_string[n])])

\* ----------------------------------------------------------------- inputs

\* The symbols command strings are made of: the ten turtle commands, the
\* default leaf symbol and a symbol used only for rewriting.
TurtleSymbols == {"F", "G", "+", "-", "&", "^", "\\", "/", "[", "]"}

Alphabet == TurtleSymbols \cup {"L", "X"}

Strings(n) == UNION {[1..m -> Alphabet] : m \in 0..n}

\* Longer command strings: the branch example of the specification, nested
\* and unbalanced brackets, leaves inside branches.
TestStrings ==
    { <<"F", "[", "+", "F", "]", "F">>,
      <<"[", "[", "F", "]", "+", "F", "]", "G">>,
      <<"F", "[", "&", "F", "L", "\\", "G", "]", "L">>,
      <<"]", "F", "[", "-", "F", "]", "]", "F">>,
      <<"[", "^", "/", "F", "[", "+", "G", "]", "]", "F">> }

\* props.angle, in degrees.
Angles == {90, 180}

\* props.initial_direction: world up (the nearly-vertical case of the frame
\* construction), a horizontal axis, and an oblique 3-4-5 heading.
Directions == {Vec(0, 0, Unit), Vec(Unit, 0, 0), Vec(0, (3 * Unit) \div 5, (4 * Unit) \div 5)}

\* props.length
Lengths == {1, 2}

\* add_leaves, leaf_symbol, leaf_object (None or a mesh object), leaf_scale.
LeafConfigs ==
    { [add_leaves |-> FALSE, leaf_symbol |-> "L", leaf_object |-> "None", leaf_scale |-> 1],
      [add_leaves |-> TRUE,  leaf_symbol |-> "L", leaf_object |-> "None", leaf_scale |-> 1],
      [add_leaves |-> TRUE,  leaf_symbol |-> "L", leaf_object |-> "None", leaf_scale |-> 2],
      [add_leaves |-> TRUE,  leaf_symbol |-> "L", leaf_object |-> "Mesh", leaf_scale |-> 1],
      [add_leaves |-> TRUE,  leaf_symbol |-> "F", leaf_object |-> "None", leaf_scale |-> 1] }

\* A rule that rewrites X to itself: with it the expanded string is the axiom.
IdentityRule == <<"X", ":", "X">>

\* props.rules_input: the presets, rules that feed each other, a repeated
\* key, blank entries, padded entries, and malformed or empty inputs.
RuleInputs ==
    { <<"F", ":", "F", "F">>,
      <<"F", ":", "F", "[", "+", "F", "]", "F">>,
      <<"X", ":", "F", "X", ",", " ", "F", ":", "F", "F">>,
      <<"F", ":", "G", ",", "G", ":", "F">>,
      <<"F", ":", "X", ",", "F", ":", "G", "F">>,
      <<" ", "F", " ", ":", " ", "F", "L", " ", ",", ",", " ">>,
      <<"F", ":">>,
      <<"F", "F", ":", "G">>,
      <<"F", ":", "G", ":", "F">>,
      <<"F", "+", "F">>,
      <<"F", ":", "F", "F", ",", "X", "F">>,
      <<"X", ",", "F", ":", "F", "F">>,
      <<>>,
      <<" ", ",", " ">> }

ExpanderAxioms ==
    { <<"F">>, <<"X">>, <<"F", "G">>, <<"F", "X", "F">>, <<"G", "[", "F", "]">> }

DefaultLeaf == [add_leaves |-> FALSE, leaf_symbol |-> "L", leaf_object |-> "None", leaf_scale |-> 1]

MakeProps(ax, ru, it, an, le, di, lf) ==
    [axiom |-> ax, rules_input |-> ru, iterations |-> it, angle |-> an,
     length |-> le, initial_direction |-> di,
     leaf_symbol |-> lf.leaf_symbol, add_leaves |-> lf.add_leaves,
     leaf_object |-> lf.leaf_object, leaf_scale |-> lf.leaf_scale]

\* A branch around every short command string.
BranchStrings == { <<"[">> \o w \o <<"]">> : w \in Strings(MaxLen) }

\* angle, initial_direction, length and the leaf settings of a run: every
\* leaf setting under every frame with steps of 1, and longer steps without
\* leaves.
TurtleConfigs ==
    { [angle |-> an, direction |-> di, length |-> 1, leaf |-> lf] :
        an \in Angles, di \in Directions, lf \in LeafConfigs }
    \cup
    { [angle |-> an, direction |-> di, length |-> le, leaf |-> DefaultLeaf] :
        an \in Angles, di \in Directions, le \in Lengths }

\* Runs that exercise the interpreter: every short command string, bare and
\* inside a branch, under every turtle configuration.
InterpreterInputs ==
    { MakeProps(ax, IdentityRule, 1, c.angle, c.length, c.direction, c.leaf) :
        ax \in Strings(MaxLen) \cup BranchStrings \cup TestStrings,
        c \in TurtleConfigs }

\* Runs that exercise the rule parser and the expander.
ExpanderInputs ==
    { MakeProps(ax, ru, it, 90, 1, Vec(0, 0, Unit), DefaultLeaf) :
        ax \in ExpanderAxioms, ru \in RuleInputs, it \in 0..MaxIter }

\* ------------------------------------------------------------------ state

VARIABLES
    props,              \* context.scene.lsystem_props / vogel_props
    pc,                 \* the position in execute
    rules_dict,
    current_ls_string,
    iter,               \* the iterations of the expansion loop done so far
    bm,                 \* the bmesh: verts, edges, faces
    position, heading_vec, up_vec, left_vec,
    stack,
    ci,                 \* the index of the next command of current_ls_string
    collection,         \* the objects linked into context.collection
    reports,            \* self.report calls, in order
    result,             \* what execute returned
    trail,              \* history: the turtle and the stack after each command
    vn,                 \* the index n of the next phyllotaxis point
    generated_objects,
    verts_only_list

vars == <<props, pc, rules_dict, current_ls_string, iter, bm, position,
          heading_vec, up_vec, left_vec, stack, ci, collection, reports,
          result, trail, vn, generated_objects, verts_only_list>>

vogelVars == <<vn, generated_objects, verts_only_list>>

turtleVars == <<position, heading_vec, up_vec, left_vec, stack>>

ZeroVec == Vec(0, 0, 0)

EmptyMesh == [verts |-> <<>>, edges |-> <<>>, faces |-> <<>>]

Snapshot(p, h, u, l, st) == [pos |-> p, H |-> h, U |-> u, L |-> l, stack |-> st]

Init ==
    /\ props \in InterpreterInputs \cup ExpanderInputs
    /\ pc = "parse"
    /\ rules_dict = EmptyDict
    /\ current_ls_string = <<>>
    /\ iter = 0
    /\ bm = EmptyMesh
    /\ position = ZeroVec
    /\ heading_vec = ZeroVec
    /\ up_vec = ZeroVec
    /\ left_vec = ZeroVec
    /\ stack = <<>>
    /\ ci = 0
    /\ collection = <<>>
    /\ reports = <<>>
    /\ result = "None"
    /\ trail = <<>>
    /\ vn = 0
    /\ generated_objects = <<>>
    /\ verts_only_list = <<>>

\* ------------------------------------------------- parsing and expansion

Report(severity) == reports' = Append(reports, severity)

\* if not rule_pairs: ERROR, CANCELLED
RulesEmpty ==
    /\ pc = "parse"
    /\ RulePairs(props.rules_input) = <<>>
    /\ Report("ERROR")
    /\ result' = "CANCELLED"
    /\ pc' = "done"
    /\ UNCHANGED <<vogelVars, props, rules_dict, current_ls_string, iter, bm, turtleVars,
                   ci, collection, trail>>

\* A pair without ':': ERROR, CANCELLED
RuleMalformed ==
    /\ pc = "parse"
    /\ RulePairs(props.rules_input) # <<>>
    /\ ~ParsePairs(RulePairs(props.rules_input), EmptyDict).ok
    /\ Report("ERROR")
    /\ result' = "CANCELLED"
    /\ pc' = "done"
    /\ UNCHANGED <<vogelVars, props, rules_dict, current_ls_string, iter, bm, turtleVars,
                   ci, collection, trail>>

\* Every pair parsed: if the dictionary were empty, ERROR and CANCELLED;
\* otherwise the expansion starts from the axiom.
RulesParsed ==
    /\ pc = "parse"
    /\ RulePairs(props.rules_input) # <<>>
    /\ LET parsed == ParsePairs(RulePairs(props.rules_input), EmptyDict)
       IN  /\ parsed.ok
           /\ rules_dict' = parsed.dict
           /\ IF DOMAIN parsed.dict = {}
              THEN /\ Report("ERROR")
                   /\ result' = "CANCELLED"
                   /\ pc' = "done"
                   /\ UNCHANGED current_ls_string
              ELSE /\ current_ls_string' = props.axiom
                   /\ pc' = "expand"
                   /\ UNCHANGED <<reports, result>>
    /\ UNCHANGED <<vogelVars, props, iter, bm, turtleVars, ci, collection, trail>>

\* for _ in range(props.iterations): one pass of the rules
ExpandStep ==
    /\ pc = "expand"
    /\ iter < props.iterations
    /\ current_ls_string' = apply_rules_lsystem(current_ls_string, rules_dict)
    /\ iter' = iter + 1
    /\ UNCHANGED <<vogelVars, props, pc, rules_dict, bm, turtleVars, ci, collection,
                   reports, result, trail>>

\* ------------------------------------------------------------ the turtle

WorldZ == Vec(0, 0, Unit)

WorldY == Vec(0, Unit, 0)

\* abs(heading_vec.dot(Vector((0,0,1)))) < 0.99
NotNearlyVertical(h) ==
    LET d == Dot(h, WorldZ)
        a == IF d < 0 THEN -d ELSE d
    IN  100 * a < 99 * Unit * Unit

\* left_vec of the initial frame
InitialLeft(h) ==
    IF NotNearlyVertical(h)
    THEN Normalized(Cross(h, WorldZ))
    ELSE Normalized(Cross(h, WorldY))

\* up_vec of the initial frame
InitialUp(h) == Normalized(Cross(InitialLeft(h), h))

\* bm = bmesh.new(); position, the frame, stack = []
SetupTurtle ==
    /\ pc = "expand"
    /\ iter >= props.iterations
    /\ LET h == Normalized(props.initial_direction)
       IN  /\ bm' = EmptyMesh
           /\ position' = ZeroVec
           /\ heading_vec' = h
           /\ left_vec' = InitialLeft(h)
           /\ up_vec' = InitialUp(h)
           /\ stack' = <<>>
           /\ trail' = <<Snapshot(ZeroVec, h, InitialUp(h), InitialLeft(h), <<>>)>>
    /\ ci' = 1
    /\ pc' = "interp"
    /\ UNCHANGED <<vogelVars, props, rules_dict, current_ls_string, iter, collection,
                   reports, result>>

\* for command in current_ls_string
Reading == pc = "interp" /\ ci <= Len(current_ls_string)

command == current_ls_string[ci]

\* The loop moves on to the next command; the history records the turtle.
NextCommand ==
    /\ ci' = ci + 1
    /\ trail' = Append(trail, Snapshot(position', heading_vec', up_vec', left_vec', stack'))
    /\ UNCHANGED <<vogelVars, props, pc, rules_dict, current_ls_string, iter, result>>

\* A vertex that is merged into an earlier vertex at the same place.
AddVertMerging(mesh, co) ==
    IF \E n \in 1..Len(mesh.verts) : mesh.verts[n] = co
    THEN mesh
    ELSE [mesh EXCEPT !.verts = Append(@, co)]

\* bm.verts.new(co): the mesh with one more vertex
AddVert(mesh, co) == [mesh EXCEPT !.verts = Append(@, co)]

\* position += heading_vec * props.length
Advance(p, h, len) == VAdd(p, VScale(h, len))

\* "F" or "G": two new vertices, and for "F" an edge between them
CmdForward ==
    /\ Reading
    /\ command \in {"F", "G"}
    /\ position' = Advance(position, heading_vec, props.length)
    /\ LET withStart == AddVert(bm, position)
           withEnd == AddVert(withStart, position')
           start_pos_vert == Len(withStart.verts)
           end_pos_vert == Len(withEnd.verts)
       IN  bm' = IF command = "F"
                 THEN [withEnd EXCEPT !.edges = Append(@, <<start_pos_vert, end_pos_vert>>)]
                 ELSE withEnd
    /\ UNCHANGED <<heading_vec, up_vec, left_vec, stack, collection, reports>>
    /\ NextCommand

\* "+": heading and left turn about up by angle
CmdPlus ==
    /\ Reading
    /\ command = "+"
    /\ heading_vec' = Rotate(heading_vec, up_vec, props.angle)
    /\ left_vec' = Rotate(left_vec, up_vec, props.angle)
    /\ UNCHANGED <<position, up_vec, stack, bm, collection, reports>>
    /\ NextCommand

\* "-": heading and left turn about up by -angle
CmdMinus ==
    /\ Reading
    /\ command = "-"
    /\ heading_vec' = Rotate(heading_vec, up_vec, -props.angle)
    /\ left_vec' = Rotate(left_vec, up_vec, -props.angle)
    /\ UNCHANGED <<position, up_vec, stack, bm, collection, reports>>
    /\ NextCommand

\* "&": heading and up turn about left by angle
CmdPitchDown ==
    /\ Reading
    /\ command = "&"
    /\ heading_vec' = Rotate(heading_vec, left_vec, props.angle)
    /\ up_vec' = Rotate(up_vec, left_vec, props.angle)
    /\ UNCHANGED <<position, left_vec, stack, bm, collection, reports>>
    /\ NextCommand

\* "^": heading and up turn about left by -angle
CmdPitchUp ==
    /\ Reading
    /\ command = "^"
    /\ heading_vec' = Rotate(heading_vec, left_vec, -props.angle)
    /\ up_vec' = Rotate(up_vec, left_vec, -props.angle)
    /\ UNCHANGED <<position, left_vec, stack, bm, collection, reports>>
    /\ NextCommand

\* A roll that turns up and leaves left behind.
CmdRollLeftUpOnly ==
    /\ pc = "interp" /\ ci <= Len(current_ls_string)
    /\ current_ls_string[ci] = "\\"
    /\ up_vec' = Rotate(up_vec, heading_vec, props.angle)
    /\ ci' = ci + 1
    /\ trail' = Append(trail, Snapshot(position, heading_vec, up_vec', left_vec, stack))
    /\ UNCHANGED <<vogelVars, props, pc, rules_dict, current_ls_string, iter, result,
                   position, heading_vec, left_vec, stack, bm, collection, reports>>

\* "\": up and left turn about heading by angle
CmdRollLeft ==
    /\ Reading
    /\ command = "\\"
    /\ up_vec' = Rotate(up_vec, heading_vec, props.angle)
    /\ left_vec' = Rotate(left_vec, heading_vec, props.angle)
    /\ UNCHANGED <<position, heading_vec, stack, bm, collection, reports>>
    /\ NextCommand

\* "/": up and left turn about heading by -angle
CmdRollRight ==
    /\ Reading
    /\ command = "/"
    /\ up_vec' = Rotate(up_vec, heading_vec, -props.angle)
    /\ left_vec' = Rotate(left_vec, heading_vec, -props.angle)
    /\ UNCHANGED <<position, heading_vec, stack, bm, collection, reports>>
    /\ NextCommand

\* An entry whose 'U' is filled from the heading: what "[" must not save.
StackEntryUpFromHeading(p, h, u, l) == [pos |-> p, H |-> h, U |-> h, L |-> l]

\* The entry "[" appends: copies of the position and of the frame.
StackEntry(p, h, u, l) == [pos |-> p, H |-> h, U |-> u, L |-> l]

\* "[": stack.append({...})
CmdPush ==
    /\ Reading
    /\ command = "["
    /\ stack' = Append(stack, StackEntry(position, heading_vec, up_vec, left_vec))
    /\ UNCHANGED <<position, heading_vec, up_vec, left_vec, bm, collection, reports>>
    /\ NextCommand

\* A pop that restores the frame and forgets the position.
RestoredFrameOnly(data) == [pos |-> position, H |-> data.H, U |-> data.U, L |-> data.L]

\* data = stack.pop(): the live state the popped entry gives
Restored(data) == [pos |-> data.pos, H |-> data.H, U |-> data.U, L |-> data.L]

\* "]" with a non-empty stack
CmdPop ==
    /\ Reading
    /\ command = "]"
    /\ stack # <<>>
    /\ LET data == Restored(stack[Len(stack)])
       IN  /\ position' = data.pos
           /\ heading_vec' = data.H
           /\ up_vec' = data.U
           /\ left_vec' = data.L
    /\ stack' = SubSeq(stack, 1, Len(stack) - 1)
    /\ UNCHANGED <<bm, collection, reports>>
    /\ NextCommand

\* An unbalanced "]" that ends the run.
CmdPopEmptyAborts ==
    /\ pc = "interp" /\ ci <= Len(current_ls_string)
    /\ current_ls_string[ci] = "]"
    /\ stack = <<>>
    /\ reports' = Append(reports, "WARNING")
    /\ result' = "CANCELLED"
    /\ pc' = "done"
    /\ UNCHANGED <<vogelVars, props, rules_dict, current_ls_string, iter, bm, turtleVars,
                   ci, collection, trail>>

\* "]" with an empty stack: a WARNING, nothing else
CmdPopEmpty ==
    /\ Reading
    /\ command = "]"
    /\ stack = <<>>
    /\ Report("WARNING")
    /\ UNCHANGED <<position, heading_vec, up_vec, left_vec, stack, bm, collection>>
    /\ NextCommand

\* elif props.add_leaves and command == props.leaf_symbol
IsLeafCommand ==
    /\ command \notin TurtleSymbols
    /\ props.add_leaves
    /\ command = props.leaf_symbol

\* A leaf prototype is given: a new object at the position, turned to the
\* frame (left, heading, up), scaled, and linked into the collection.
CmdLeafInstance ==
    /\ Reading
    /\ IsLeafCommand
    /\ props.leaf_object # "None"
    /\ collection' = Append(collection,
            [kind |-> "Leaf", location |-> position,
             rotation |-> <<left_vec, heading_vec, up_vec>>,
             scale |-> props.leaf_scale])
    /\ UNCHANGED <<position, heading_vec, up_vec, left_vec, stack, bm, reports>>
    /\ NextCommand

\* A leaf plane whose third corner repeats the second.
LeafCornersRepeated(s) ==
    << Vec(-((s * Unit) \div 2), 0, 0),
       Vec((s * Unit) \div 2, 0, 0),
       Vec((s * Unit) \div 2, 0, 0),
       Vec(-((s * Unit) \div 2), s * Unit, 0) >>

\* The corners of the leaf plane, before the transform.
LeafCorners(s) ==
    << Vec(-((s * Unit) \div 2), 0, 0),
       Vec((s * Unit) \div 2, 0, 0),
       Vec((s * Unit) \div 2, s * Unit, 0),
       Vec(-((s * Unit) \div 2), s * Unit, 0) >>

\* Matrix.Translation(position) @ Matrix((left, heading, up)).transposed()
\* applied to v: the columns of the rotation are left, heading and up.
LeafTransform(p, l, h, u, v) ==
    VAdd(p, VDiv(VAdd(VAdd(VScale(l, v[1]), VScale(h, v[2])), VScale(u, v[3])), Unit))

\* No prototype: four new vertices, the transformed corners, and a face on
\* them.  The vertices are new, so bm.faces.new never raises.
CmdLeafQuad ==
    /\ Reading
    /\ IsLeafCommand
    /\ props.leaf_object = "None"
    /\ LET corners == LeafCorners(props.leaf_scale)
           world == [k \in 1..4 |->
                       LeafTransform(position, left_vec, heading_vec, up_vec, corners[k])]
           n == Len(bm.verts)
       IN  bm' = [bm EXCEPT !.verts = @ \o world,
                            !.faces = Append(@, <<n + 1, n + 2, n + 3, n + 4>>)]
    /\ UNCHANGED <<position, heading_vec, up_vec, left_vec, stack, collection, reports>>
    /\ NextCommand

\* An unknown symbol that moves the turtle as "G" does.
CmdIgnoreMoves ==
    /\ pc = "interp" /\ ci <= Len(current_ls_string)
    /\ current_ls_string[ci] \notin TurtleSymbols
    /\ ~(props.add_leaves /\ current_ls_string[ci] = props.leaf_symbol)
    /\ position' = VAdd(position, VScale(heading_vec, props.length))
    /\ ci' = ci + 1
    /\ trail' = Append(trail, Snapshot(position', heading_vec, up_vec, left_vec, stack))
    /\ UNCHANGED <<vogelVars, props, pc, rules_dict, current_ls_string, iter, result,
                   heading_vec, up_vec, left_vec, stack, bm, collection, reports>>

\* Any other symbol: no branch of the chain is taken.
CmdIgnore ==
    /\ Reading
    /\ command \notin TurtleSymbols
    /\ ~IsLeafCommand
    /\ UNCHANGED <<position, heading_vec, up_vec, left_vec, stack, bm, collection, reports>>
    /\ NextCommand

\* After the loop, len(bm.verts) > 0: the mesh becomes the object
\* LSystemPlant, linked into the collection; INFO.
FinishMesh ==
    /\ pc = "interp"
    /\ ci > Len(current_ls_string)
    /\ Len(bm.verts) > 0
    /\ collection' = Append(collection, [kind |-> "LSystemPlant", mesh |-> bm])
    /\ Report("INFO")
    /\ result' = "FINISHED"
    /\ pc' = "done"
    /\ UNCHANGED <<vogelVars, props, rules_dict, current_ls_string, iter, bm, turtleVars, ci, trail>>

\* An empty result that is linked into the collection all the same.
FinishEmptyLinksMesh ==
    /\ pc = "interp"
    /\ ci > Len(current_ls_string)
    /\ Len(bm.verts) = 0
    /\ collection' = Append(collection, [kind |-> "LSystemPlant", mesh |-> bm])
    /\ reports' = Append(reports, "WARNING")
    /\ result' = "FINISHED"
    /\ pc' = "done"
    /\ UNCHANGED <<vogelVars, props, rules_dict, current_ls_string, iter, bm, turtleVars, ci, trail>>

\* After the loop, no vertex: WARNING, nothing is linked.
FinishEmpty ==
    /\ pc = "interp"
    /\ ci > Len(current_ls_string)
    /\ Len(bm.verts) = 0
    /\ Report("WARNING")
    /\ result' = "FINISHED"
    /\ pc' = "done"
    /\ UNCHANGED <<vogelVars, props, rules_dict, current_ls_string, iter, bm, turtleVars, ci,
                   collection, trail>>

Next ==
    \/ RulesEmpty
    \/ RuleMalformed
    \/ RulesParsed
    \/ ExpandStep
    \/ SetupTurtle
    \/ CmdForward
    \/ CmdPlus
    \/ CmdMinus
    \/ CmdPitchDown
    \/ CmdPitchUp
    \/ CmdRollLeft
    \/ CmdRollRight
    \/ CmdPush
    \/ CmdPop
    \/ CmdPopEmpty
    \/ CmdLeafInstance
    \/ CmdLeafQuad
    \/ CmdIgnore
    \/ FinishMesh
    \/ FinishEmpty

Spec == Init /\ [][Next]_vars

\* ------------------------------------------------------------ phyllotaxis

\* vogel_props: num_points, the two representation flags, the prototype
\* (None or an object) and the orientation mode.
VogelInputs ==
    [num_points : 1..MaxPoints,
     use_custom_instance_object : BOOLEAN,
     instance_object : {"None", "Object"},
     use_icospheres : BOOLEAN,
     leaf_orientation_mode : {"NORMAL", "UPWARD"}]

VogelInit ==
    /\ props \in VogelInputs
    /\ pc = "vogel"
    /\ vn = 0
    /\ generated_objects = <<>>
    /\ verts_only_list = <<>>
    /\ rules_dict = EmptyDict
    /\ current_ls_string = <<>>
    /\ iter = 0
    /\ bm = EmptyMesh
    /\ position = ZeroVec
    /\ heading_vec = ZeroVec
    /\ up_vec = ZeroVec
    /\ left_vec = ZeroVec
    /\ stack = <<>>
    /\ ci = 0
    /\ collection = <<>>
    /\ reports = <<>>
    /\ result = "None"
    /\ trail = <<>>

lsystemVars ==
    <<rules_dict, current_ls_string, iter, bm, position, heading_vec, up_vec,
      left_vec, stack, ci, trail>>

\* current_pos of point n, in polar form: n golden angles round the axis, at
\* radius c * sqrt(n) (radius squared n, in units of c squared), the height
\* a function of n.  With c > 0 the points of different n differ.
VogelPosition(n) == [golden_turns |-> n, radius_sq |-> n]

\* radius_xy > 0.0001: c is at least 0.001, so every point but point 0.
OffCentre(n) == n > 0

\* rotation_quaternion of an instance: the fixed rotation to world up, or for
\* NORMAL off the centre the tracking rotation of the tilted radial direction.
VogelRotation(n) ==
    IF props.leaf_orientation_mode = "NORMAL" /\ OffCentre(n)
    THEN "track_radial"
    ELSE "rot_y_to_world_z"

\* Instance mode chosen by the flag alone, whether or not a prototype is set.
CustomFlagOnly == props.use_custom_instance_object

\* if props.use_custom_instance_object and props.instance_object
CustomInstanceMode ==
    props.use_custom_instance_object /\ props.instance_object # "None"

\* for n in range(props.num_points)
VogelLooping == pc = "vogel" /\ vn < props.num_points

\* A copy of the prototype, linked, placed and turned.
VogelInstance ==
    /\ VogelLooping
    /\ CustomInstanceMode
    /\ LET new_obj == [kind |-> "Instance", location |-> VogelPosition(vn),
                       rotation |-> VogelRotation(vn)]
       IN  /\ collection' = Append(collection, new_obj)
           /\ generated_objects' = Append(generated_objects, new_obj)
    /\ vn' = vn + 1
    /\ UNCHANGED <<props, pc, verts_only_list, reports, result, lsystemVars>>

\* A sphere that is emitted whenever use_icospheres is set.
VogelIcosphereAlways ==
    /\ pc = "vogel" /\ vn < props.num_points
    /\ props.use_icospheres
    /\ collection' = Append(collection, [kind |-> "VogelPoint", location |-> VogelPosition(vn)])
    /\ generated_objects' = Append(generated_objects, [kind |-> "VogelPoint", location |-> VogelPosition(vn)])
    /\ vn' = vn + 1
    /\ UNCHANGED <<props, pc, verts_only_list, reports, result, lsystemVars>>

\* elif props.use_icospheres: a sphere object at the point, linked.
VogelIcosphere ==
    /\ VogelLooping
    /\ ~CustomInstanceMode
    /\ props.use_icospheres
    /\ LET ico_obj == [kind |-> "VogelPoint", location |-> VogelPosition(vn)]
       IN  /\ collection' = Append(collection, ico_obj)
           /\ generated_objects' = Append(generated_objects, ico_obj)
    /\ vn' = vn + 1
    /\ UNCHANGED <<props, pc, verts_only_list, reports, result, lsystemVars>>

\* else: verts_only_list.append(current_pos)
VogelVertex ==
    /\ VogelLooping
    /\ ~CustomInstanceMode
    /\ ~props.use_icospheres
    /\ verts_only_list' = Append(verts_only_list, VogelPosition(vn))
    /\ vn' = vn + 1
    /\ UNCHANGED <<props, pc, collection, generated_objects, reports, result,
                   lsystemVars>>

\* After the loop: one point mesh of the collected positions, if any; then
\* WARNING and CANCELLED when nothing was generated, INFO and FINISHED
\* otherwise.
VogelFinish ==
    /\ pc = "vogel"
    /\ vn >= props.num_points
    /\ LET obj == [kind |-> "VogelPatternObject",
                   mesh |-> [verts |-> verts_only_list, edges |-> <<>>, faces |-> <<>>]]
           generated == IF verts_only_list # <<>>
                        THEN Append(generated_objects, obj)
                        ELSE generated_objects
       IN  /\ generated_objects' = generated
           /\ collection' = IF verts_only_list # <<>>
                            THEN Append(collection, obj)
                            ELSE collection
           /\ IF generated = <<>>
              THEN Report("WARNING") /\ result' = "CANCELLED"
              ELSE Report("INFO") /\ result' = "FINISHED"
    /\ pc' = "done"
    /\ UNCHANGED <<props, vn, verts_only_list, lsystemVars>>

VogelNext ==
    \/ VogelInstance
    \/ VogelIcosphere
    \/ VogelVertex
    \/ VogelFinish

SpecVogel == VogelInit /\ [][VogelNext]_vars

\* ------------------------------------------------------------ properties

Expanded == pc \in {"expand", "interp"} \/ (pc = "done" /\ result = "FINISHED")

Interpreting == pc = "interp" \/ (pc = "done" /\ result = "FINISHED")

Finished == pc = "done" /\ result = "FINISHED"

\* The simultaneous substitution, stated on its own: the replacement of a
\* symbol is its rule's right-hand side when rules_dict has a rule for it.
Replacement(c) ==
    IF \E k \in DOMAIN rules_dict : k = <<c>> THEN rules_dict[<<c>>] ELSE <<c>>

RECURSIVE Substituted(_)
Substituted(s) ==
    IF s = <<>> THEN <<>> ELSE Replacement(Head(s)) \o Substituted(Tail(s))

RECURSIVE Iterated(_, _)
Iterated(s, k) == IF k = 0 THEN s ELSE Substituted(Iterated(s, k - 1))

\* C1: after k passes of the expansion loop the string is the axiom
\* rewritten k times by the simultaneous substitution (k = 0: the axiom
\* itself), the interpreter reads the string of exactly props.iterations
\* passes, and axiom F under the single rule F:FF has length 2^k.
C1_ExpansionIsIteratedSubstitution ==
    Expanded =>
        /\ current_ls_string = Iterated(props.axiom, iter)
        /\ iter <= props.iterations
        /\ (pc # "expand" => iter = props.iterations)
        /\ (iter = 0 => current_ls_string = props.axiom)
        /\ (/\ props.axiom = <<"F">>
            /\ DOMAIN rules_dict = {<<"F">>}
            /\ rules_dict[<<"F">>] = <<"F", "F">>) => Len(current_ls_string) = 2 ^ iter

\* Two passes of rules that feed each other: X:FX, F:FF takes X to FX and
\* then to FFFX.
C1_Witness ==
    /\ pc = "interp"
    /\ iter = 2
    /\ props.axiom = <<"X">>
    /\ DOMAIN rules_dict = {<<"X">>, <<"F">>}
    /\ current_ls_string = <<"F", "F", "F", "X">>

VSub(a, b) == <<a[1] - b[1], a[2] - b[2], a[3] - b[3]>>

BranchExample == <<"F", "[", "+", "F", "]", "F">>

\* The coordinates at which the mesh has a vertex.
VertexPositions == {bm.verts[n] : n \in 1..Len(bm.verts)}

\* C2: the command string F[+F]F with angle 90 and length 1 ends with 3
\* edges on 4 distinct vertex positions (each segment stores its own two
\* vertices, 6 in all); the third segment starts where the first one ends and
\* has the direction and length of the first.
C2_BranchExample ==
    (Finished /\ current_ls_string = BranchExample
        /\ props.angle = 90 /\ props.length = 1) =>
        /\ Len(bm.edges) = 3
        /\ Cardinality(VertexPositions) = 4
        /\ Len(bm.verts) = 6
        /\ bm.faces = <<>>
        /\ LET first == bm.edges[1]
               third == bm.edges[3]
           IN  /\ bm.verts[third[1]] = bm.verts[first[2]]
               /\ VSub(bm.verts[third[2]], bm.verts[third[1]])
                    = VSub(bm.verts[first[2]], bm.verts[first[1]])
               /\ bm.verts[third[1]] # bm.verts[third[2]]

C2_Witness ==
    /\ Finished
    /\ current_ls_string = BranchExample
    /\ props.angle = 90
    /\ props.length = 1
    /\ Len(bm.edges) = 3

Count(w, c) == Cardinality({n \in 1..Len(w) : w[n] = c})

\* No prefix of w closes more brackets than it opened, and w closes them all.
Balanced(w) ==
    /\ Count(w, "[") = Count(w, "]")
    /\ \A m \in 1..Len(w) :
          Count(SubSeq(w, 1, m), "[") >= Count(SubSeq(w, 1, m), "]")

\* The commands read so far.
Read == 1..(ci - 1)

\* trail[k] is the turtle before command k, trail[k + 1] the turtle after it.
\* C3: "[" appends an entry holding the position and frame of that moment,
\* and for every balanced w the turtle after "[" w "]" has the position,
\* heading, up, left and stack it had before the "[".
C3_BranchRoundTrip ==
    Interpreting =>
        \A i \in Read :
            current_ls_string[i] = "[" =>
                /\ trail[i + 1].stack =
                      Append(trail[i].stack,
                             [pos |-> trail[i].pos, H |-> trail[i].H,
                              U |-> trail[i].U, L |-> trail[i].L])
                /\ \A j \in Read :
                      (/\ i < j
                       /\ current_ls_string[j] = "]"
                       /\ Balanced(SubSeq(current_ls_string, i + 1, j - 1)))
                      => trail[j + 1] = trail[i]

\* A branch that moved and turned the turtle has been closed.
C3_Witness ==
    /\ Interpreting
    /\ \E i \in Read, j \in Read :
          /\ i + 2 < j
          /\ current_ls_string[i] = "["
          /\ current_ls_string[j] = "]"
          /\ Balanced(SubSeq(current_ls_string, i + 1, j - 1))
          /\ trail[j].pos # trail[i].pos
          /\ trail[j].H # trail[i].H
          /\ trail[i].stack # <<>>
          /\ trail[j + 1] = trail[i]

\* What reading "]" on an empty stack does.
UnbalancedPopStep ==
    (Reading /\ command = "]" /\ stack = <<>>) =>
        /\ reports' = Append(reports, "WARNING")
        /\ UNCHANGED <<position, heading_vec, up_vec, left_vec, stack>>
        /\ UNCHANGED <<bm, collection, current_ls_string>>
        /\ pc' = "interp"
        /\ result' = "None"
        /\ ci' = ci + 1

\* A run that started interpreting ends FINISHED with every symbol read.
InterpretationCompletes ==
    (pc = "done" /\ trail # <<>>) =>
        /\ result = "FINISHED"
        /\ ci = Len(current_ls_string) + 1
        /\ Len(trail) = Len(current_ls_string) + 1

\* C4: "]" on an empty stack reports a WARNING, changes neither the turtle
\* nor the stack, and the loop goes on to the next symbol; the run reads
\* every symbol of the string and is not aborted.
C4_UnbalancedPopWarns == [][UnbalancedPopStep]_vars /\ []InterpretationCompletes

\* A run that met "]" on an empty stack first and drew segments after it.
C4_Witness ==
    /\ Finished
    /\ Len(current_ls_string) > 1
    /\ current_ls_string[1] = "]"
    /\ reports[1] = "WARNING"
    /\ Len(bm.edges) > 0

\* The comma-separated entries of the rule input, stated on its own: the
\* entry from a to b lies between two commas (or the ends) and holds none.
IsEntry(s, a, b) ==
    /\ a <= b
    /\ (a = 1 \/ s[a - 1] = ",")
    /\ (b = Len(s) \/ s[b + 1] = ",")
    /\ \A n \in a..b : s[n] # ","

NonBlank(s, a, b) == \E n \in a..b : s[n] # " "

NoColon(s, a, b) == \A n \in a..b : s[n] # ":"

Entries(s) == {e \in (1..Len(s)) \X (1..Len(s)) : IsEntry(s, e[1], e[2]) /\ NonBlank(s, e[1], e[2])}

InputEmpty(s) == Entries(s) = {}

InputMalformed(s) == \E e \in Entries(s) : NoColon(s, e[1], e[2])

\* C5: with no non-blank entry, or with a non-blank entry without ':', the
\* run reports one ERROR and returns CANCELLED before the expansion: no pass
\* of the rules, no vertex, edge or face, nothing linked, the turtle never
\* set up.
C5_BadRulesAbort ==
    ((InputEmpty(props.rules_input) \/ InputMalformed(props.rules_input)) /\ pc # "parse") =>
        /\ pc = "done"
        /\ result = "CANCELLED"
        /\ reports = <<"ERROR">>
        /\ iter = 0
        /\ current_ls_string = <<>>
        /\ bm = EmptyMesh
        /\ collection = <<>>
        /\ trail = <<>>

\* A malformed entry after a well-formed pair.
C5_Witness ==
    /\ pc = "done"
    /\ result = "CANCELLED"
    /\ props.rules_input = <<"F", ":", "F", "F", ",", "X", "F">>

\* C6: while the string is interpreted, heading, up and left are unit
\* vectors, pairwise orthogonal, and left = heading x up.
C6_FrameOrthonormal ==
    Interpreting =>
        /\ Dot(heading_vec, heading_vec) = Unit * Unit
        /\ Dot(up_vec, up_vec) = Unit * Unit
        /\ Dot(left_vec, left_vec) = Unit * Unit
        /\ Dot(heading_vec, up_vec) = 0
        /\ Dot(heading_vec, left_vec) = 0
        /\ Dot(up_vec, left_vec) = 0
        /\ left_vec = Cross(heading_vec, up_vec)

\* An oblique frame after a turn, a pitch and a roll, none of its vectors
\* where it started.
C6_Witness ==
    /\ Interpreting
    /\ ci > 3
    /\ {"+", "-"} \cap {current_ls_string[n] : n \in Read} # {}
    /\ {"&", "^"} \cap {current_ls_string[n] : n \in Read} # {}
    /\ {"\\", "/"} \cap {current_ls_string[n] : n \in Read} # {}
    /\ props.initial_direction \notin {WorldZ, Vec(Unit, 0, 0)}
    /\ heading_vec # trail[1].H
    /\ up_vec # trail[1].U
    /\ left_vec # trail[1].L

\* The LSystemPlant objects linked into the collection.
Plants == {n \in 1..Len(collection) : collection[n].kind = "LSystemPlant"}

\* C7: a run that ends with no vertex reports a WARNING last and links no
\* plant mesh; any other finished run has linked exactly one, the accumulated
\* mesh; and a plant mesh is linked only once every symbol has been read.
C7_SinkOncePerRun ==
    /\ (Finished /\ Len(bm.verts) = 0) =>
          /\ reports[Len(reports)] = "WARNING"
          /\ Plants = {}
    /\ (Finished /\ Len(bm.verts) > 0) =>
          /\ Cardinality(Plants) = 1
          /\ collection[Len(collection)] = [kind |-> "LSystemPlant", mesh |-> bm]
          /\ reports[Len(reports)] = "INFO"
    /\ Plants # {} => (Finished /\ ci = Len(current_ls_string) + 1)

\* A run that read three symbols and ended without a vertex.
C7_Witness ==
    /\ Finished
    /\ Len(current_ls_string) = 3
    /\ Len(bm.verts) = 0
    /\ reports[Len(reports)] = "WARNING"

\* C9: FL with leaves enabled, leaf symbol L and no prototype ends with one
\* edge and one quad face on four corners at four different places.
C9_LeafQuad ==
    (Finished /\ current_ls_string = <<"F", "L">>
        /\ props.add_leaves /\ props.leaf_symbol = "L"
        /\ props.leaf_object = "None") =>
        /\ Len(bm.edges) = 1
        /\ bm.edges[1] = <<1, 2>>
        /\ Len(bm.faces) = 1
        /\ Len(bm.faces[1]) = 4
        /\ Cardinality({bm.faces[1][k] : k \in 1..4}) = 4
        /\ Cardinality({bm.verts[bm.faces[1][k]] : k \in 1..4}) = 4
        /\ collection[Len(collection)].mesh = bm

\* The run of FL with a leaf of scale 2.
C9_Witness ==
    /\ Finished
    /\ current_ls_string = <<"F", "L">>
    /\ props.add_leaves
    /\ props.leaf_symbol = "L"
    /\ props.leaf_object = "None"
    /\ props.leaf_scale = 2
    /\ Len(bm.faces) = 1

\* What reading a symbol that is no turtle command does.
OtherSymbolStep ==
    (Reading /\ command \notin TurtleSymbols) =>
        /\ UNCHANGED <<position, heading_vec, up_vec, left_vec, stack>>
        /\ UNCHANGED reports
        /\ ci' = ci + 1
        /\ IF props.add_leaves /\ command = props.leaf_symbol
           THEN /\ bm'.edges = bm.edges
                /\ SubSeq(bm'.verts, 1, Len(bm.verts)) = bm.verts
                /\ \/ /\ collection' = collection
                      /\ Len(bm'.verts) = Len(bm.verts) + 4
                      /\ Len(bm'.faces) = Len(bm.faces) + 1
                   \/ /\ bm' = bm
                      /\ Len(collection') = Len(collection) + 1
                      /\ collection'[Len(collection')].kind = "Leaf"
                      /\ collection'[Len(collection')].location = position
           ELSE /\ bm' = bm
                /\ collection' = collection

\* C10: a symbol other than F G + - & ^ \ / [ ] leaves position, heading,
\* up, left and the stack as they were; the enabled leaf symbol adds a leaf
\* quad to the mesh or one leaf object to the collection and nothing else,
\* and any other symbol (the leaf symbol with leaves disabled too) leaves the
\* mesh and the collection as they were.
C10_OtherSymbolsKeepTurtle == [][OtherSymbolStep]_vars

\* L with leaves disabled and then X have been read after a move and a turn.
C10_Witness ==
    /\ pc = "interp"
    /\ ~props.add_leaves
    /\ current_ls_string = <<"F", "[", "&", "F", "L", "\\", "G", "]", "L">>
    /\ ci = 6
    /\ bm.faces = <<>>
    /\ trail[6] = trail[5]

\* The objects of one kind among generated_objects.
Generated(kind) ==
    {k \in 1..Len(generated_objects) : generated_objects[k].kind = kind}

\* How many of the three representations have been emitted so far.
ModesUsed ==
    Cardinality({m \in {"Instance", "VogelPoint"} : Generated(m) # {}})
    + (IF verts_only_list # <<>> THEN 1 ELSE 0)

\* C8: every point read so far was emitted once, all in one representation:
\* instances when the custom flag and a prototype are given, else spheres
\* when use_icospheres is set, else collected positions; a run with instances
\* has no sphere, no collected position and no point mesh; and in bare-vertex
\* mode the run ends with one object, a mesh of the N positions without
\* edges or faces.
C8_OneRepresentation ==
    /\ Cardinality(Generated("Instance")) + Cardinality(Generated("VogelPoint"))
          + Len(verts_only_list) = vn
    /\ ModesUsed <= 1
    /\ Generated("Instance") # {} =>
          /\ Generated("VogelPoint") = {}
          /\ Generated("VogelPatternObject") = {}
          /\ verts_only_list = <<>>
    /\ CustomInstanceMode => Cardinality(Generated("Instance")) = vn
    /\ (~CustomInstanceMode /\ props.use_icospheres) =>
          Cardinality(Generated("VogelPoint")) = vn
    /\ (~CustomInstanceMode /\ ~props.use_icospheres) =>
          /\ Len(verts_only_list) = vn
          /\ \A k \in 1..vn : verts_only_list[k] = [golden_turns |-> k - 1, radius_sq |-> k - 1]
          /\ pc = "done" =>
                /\ vn = props.num_points
                /\ generated_objects =
                      << [kind |-> "VogelPatternObject",
                          mesh |-> [verts |-> verts_only_list, edges |-> <<>>,
                                    faces |-> <<>>]] >>
                /\ collection = generated_objects

\* A finished run with both flags and a prototype: three instances.
C8_Witness ==
    /\ pc = "done"
    /\ props.use_custom_instance_object
    /\ props.instance_object # "None"
    /\ props.use_icospheres
    /\ props.num_points = 3
    /\ Cardinality(Generated("Instance")) = 3

\* The commands read so far that are the symbol c.
ReadCount(c) == Cardinality({n \in Read : current_ls_string[n] = c})

\* Leaf quads are asked for: leaves enabled and no prototype.
QuadLeaves == props.add_leaves /\ props.leaf_object = "None"

\* The leaf symbols read so far, a leaf symbol that is also a turtle
\* command counted too.
LeafSymbolsRead ==
    IF QuadLeaves THEN ReadCount(props.leaf_symbol) ELSE 0

\* The leaf symbols read so far that are no turtle command.
LeafOnlySymbolsRead ==
    IF QuadLeaves /\ props.leaf_symbol \notin TurtleSymbols
    THEN ReadCount(props.leaf_symbol)
    ELSE 0

\* The vertices the edges end on.
EdgeEnds == {bm.edges[k][1] : k \in 1..Len(bm.edges)} \cup {bm.edges[k][2] : k \in 1..Len(bm.edges)}

\* The mesh after the commands read so far, but for the count of vertices:
\* one edge per F, no two edges on a common vertex, and a finished run of a
\* string of G alone links its mesh and reports INFO only.
SegmentsUnshared ==
    /\ Len(bm.edges) = ReadCount("F")
    /\ Cardinality(EdgeEnds) = 2 * Len(bm.edges)
    /\ \A k \in 1..Len(bm.edges) : bm.edges[k][2] = bm.edges[k][1] + 1
    /\ (/\ Finished
        /\ current_ls_string # <<>>
        /\ \A n \in 1..Len(current_ls_string) : current_ls_string[n] = "G") =>
          /\ Len(bm.verts) = 2 * Len(current_ls_string)
          /\ Cardinality(Plants) = 1
          /\ collection[Len(collection)].mesh = bm
          /\ reports = <<"INFO">>

\* C11 as stated: the mesh holds 2 vertices per F and G read and 4 per leaf
\* symbol read with leaves enabled and no prototype.
C11_VertexCountAsStated ==
    Interpreting =>
        /\ Len(bm.verts) = 2 * (ReadCount("F") + ReadCount("G")) + 4 * LeafSymbolsRead
        /\ SegmentsUnshared

\* C11, amended: the mesh holds 2 vertices per F and G read and 4 per leaf
\* symbol read that is not itself a turtle command (leaves enabled, no
\* prototype); one edge per F read; no vertex is shared between segments; a
\* string of G alone ends with a non-empty mesh, linked, and no WARNING.
C11_VertexCount ==
    Interpreting =>
        /\ Len(bm.verts) = 2 * (ReadCount("F") + ReadCount("G")) + 4 * LeafOnlySymbolsRead
        /\ SegmentsUnshared

\* Two segments, a move without drawing and two leaf quads: 14 vertices.
C11_Witness ==
    /\ Finished
    /\ QuadLeaves
    /\ current_ls_string = <<"F", "[", "&", "F", "L", "\\", "G", "]", "L">>
    /\ Len(bm.verts) = 14
    /\ Len(bm.edges) = 2
    /\ Len(bm.faces) = 2

\* C12: with the custom flag set and no prototype no instance is made and no
\* ERROR reported; the points become spheres when use_icospheres is set and
\* collected positions otherwise; the finished run has generated at least
\* one object and reports INFO, not WARNING.
C12_NoPrototypeFallsThrough ==
    (props.use_custom_instance_object /\ props.instance_object = "None") =>
        /\ Generated("Instance") = {}
        /\ \A k \in 1..Len(reports) : reports[k] \notin {"ERROR", "WARNING"}
        /\ props.use_icospheres =>
              /\ Cardinality(Generated("VogelPoint")) = vn
              /\ verts_only_list = <<>>
        /\ ~props.use_icospheres =>
              /\ Len(verts_only_list) = vn
              /\ Generated("VogelPoint") = {}
        /\ pc = "done" =>
              /\ Len(generated_objects) >= 1
              /\ Len(generated_objects) =
                    (IF props.use_icospheres THEN props.num_points ELSE 1)
              /\ reports = <<"INFO">>
              /\ result = "FINISHED"

\* A finished run with the flag, no prototype and no spheres: one point mesh.
C12_Witness ==
    /\ pc = "done"
    /\ props.use_custom_instance_object
    /\ props.instance_object = "None"
    /\ ~props.use_icospheres
    /\ props.num_points = 2
    /\ Len(generated_objects) = 1
    /\ generated_objects[1].kind = "VogelPatternObject"

====
